---- MODULE Spec2Model ----
(***************************************************************************)
(* The Scrapling REST gateway (src/scrapling/api.py): the API-key guard,   *)
(* the four request schemas, the option mappers, the response normalizer   *)
(* and the seven routes.  The gateway keeps no state between requests, so  *)
(* the state is the process-wide key plus the request being served and     *)
(* what serving it did: the phases run, the engine calls made, the         *)
(* selector queries evaluated and the HTTP response.                       *)
(***************************************************************************)
EXTENDS Naturals, Sequences, FiniteSets, TLC

VARIABLES
    apiKey,     \* SCRAPLING_API_KEY as _get_api_key reads it
    pc,         \* "idle": waiting for a request; "done": a response was produced
    req,        \* the request served: route, X-API-Key header, JSON body
    engineOut,  \* what the engine did for this request (a response or a raise)
    trace,      \* the phases run for the request, in order
    calls,      \* the engine invocations made: operation, url, option map
    evaluated,  \* the selector queries run against the engine response
    resp        \* the HTTP response: status, detail, content

vars == <<apiKey, pc, req, engineOut, trace, calls, evaluated, resp>>

(***************************************************************************)
(* Bounds of the model.                                                    *)
(***************************************************************************)
\* how many optional fields a request body sets at once
MaxSetFields == 1
\* how many records a cookie sequence of the engine holds
MaxCookies == 2
\* how many bytes a bytes body of the engine holds
MaxBodyLen == 2

(***************************************************************************)
(* Values.  A JSON / Python value is a record of its kind, its text and    *)
(* its number: for a dict or a list, s names the contents and n is the     *)
(* number of entries; for a bool, n is 1 or 0.                             *)
(***************************************************************************)
Null == [k |-> "null", s |-> "", n |-> 0]
Str(x) == [k |-> "str", s |-> x, n |-> 0]
Int(i) == [k |-> "int", s |-> "", n |-> i]
Bool(b) == [k |-> "bool", s |-> "", n |-> IF b THEN 1 ELSE 0]
Dict(tag, size) == [k |-> "dict", s |-> tag, n |-> size]
List(tag, size) == [k |-> "list", s |-> tag, n |-> size]

\* Python truthiness, as `if req.headers:` and `if css_selector:` use it
Truthy(v) ==
    CASE v.k = "null" -> FALSE
      [] v.k = "str" -> v.s # ""
      [] OTHER -> v.n # 0

\* `x is not None`
IsNotNone(v) == v.k # "null"

EmptyMap == [x \in {} |-> Null]
Put(m, key, v) == [x \in DOMAIN m \cup {key} |-> IF x = key THEN v ELSE m[x]]

\* an optional string of code points: the header value, the configured key
None == [set |-> FALSE, v |-> <<>>]
Some(str) == [set |-> TRUE, v |-> str]

(***************************************************************************)
(* API key authentication.                                                 *)
(***************************************************************************)
IsAscii(str) == \A i \in DOMAIN str : str[i] < 128

\* secrets.compare_digest on two str: TypeError unless both are ASCII
compare_digest(a, b) ==
    IF ~IsAscii(a) \/ ~IsAscii(b) THEN "TypeError"
    ELSE IF a = b THEN "True" ELSE "False"

\* _verify_api_key with the check of an unset key dropped
VerifyApiKeyFailClosed(expected, api_key) ==
    IF ~api_key.set THEN [raised |-> "HTTPException", status |-> 401]
    ELSE IF ~expected.set THEN [raised |-> "HTTPException", status |-> 403]
    ELSE IF compare_digest(api_key.v, expected.v) = "TypeError"
         THEN [raised |-> "TypeError", status |-> 500]
    ELSE IF compare_digest(api_key.v, expected.v) = "False"
         THEN [raised |-> "HTTPException", status |-> 403]
    ELSE [raised |-> "", status |-> 0]

\* _verify_api_key: what the dependency raises, "" when it returns
VerifyApiKey(expected, api_key) ==
    IF ~expected.set THEN [raised |-> "", status |-> 0]
    ELSE IF ~api_key.set THEN [raised |-> "HTTPException", status |-> 401]
    ELSE IF compare_digest(api_key.v, expected.v) = "TypeError"
         THEN [raised |-> "TypeError", status |-> 500]
    ELSE IF compare_digest(api_key.v, expected.v) = "False"
         THEN [raised |-> "HTTPException", status |-> 403]
    ELSE [raised |-> "", status |-> 0]

(***************************************************************************)
(* Request schemas.                                                        *)
(***************************************************************************)
FetcherGetFields ==
    {"url", "headers", "cookies", "params", "proxy", "timeout",
     "follow_redirects", "verify", "impersonate", "stealthy_headers",
     "css_selector", "xpath_selector"}

FetcherDataFields == FetcherGetFields \cup {"data", "json_data"}

DynamicFetchFields ==
    {"url", "headless", "disable_resources", "network_idle", "load_dom",
     "timeout", "wait", "wait_selector", "wait_selector_state", "locale",
     "real_chrome", "cdp_url", "proxy", "extra_headers", "useragent",
     "google_search", "css_selector", "xpath_selector"}

StealthyFetchFields ==
    DynamicFetchFields \cup
    {"allow_webgl", "hide_canvas", "block_webrtc", "solve_cloudflare"}

FieldsOf(schema) ==
    CASE schema = "FetcherGetRequest" -> FetcherGetFields
      [] schema = "FetcherDataRequest" -> FetcherDataFields
      [] schema = "DynamicFetchRequest" -> DynamicFetchFields
      [] schema = "StealthyFetchRequest" -> StealthyFetchFields

\* the declared type of a field
TypeOf(f) ==
    CASE f \in {"url", "proxy", "impersonate", "css_selector", "xpath_selector",
                "wait_selector", "wait_selector_state", "locale", "cdp_url",
                "useragent"} -> "str"
      [] f \in {"headers", "cookies", "params", "extra_headers", "data"} -> "dict"
      [] f \in {"timeout", "wait"} -> "int"
      [] f = "json_data" -> "any"
      [] OTHER -> "bool"

\* the declared default of a field
DefaultOf(schema, f) ==
    CASE f = "timeout" ->
            IF schema \in {"FetcherGetRequest", "FetcherDataRequest"}
            THEN Int(30) ELSE Int(30000)
      [] f \in {"follow_redirects", "verify", "stealthy_headers", "headless",
                "load_dom", "google_search", "allow_webgl"} -> Bool(TRUE)
      [] f \in {"disable_resources", "network_idle", "real_chrome",
                "hide_canvas", "block_webrtc", "solve_cloudflare"} -> Bool(FALSE)
      [] f = "wait_selector_state" -> Str("attached")
      [] OTHER -> Null

\* pydantic's validation of a JSON body (a map from the keys present to
\* their values): url is required, every typed field is Optional
Validates(schema, body) ==
    /\ "url" \in DOMAIN body
    /\ body["url"].k = "str"
    /\ \A f \in DOMAIN body \cap FieldsOf(schema) :
          \/ TypeOf(f) = "any"
          \/ f # "url" /\ body[f].k = "null"
          \/ body[f].k = TypeOf(f)

\* the request model pydantic builds: absent fields take their defaults
ParseModel(schema, body) ==
    [f \in FieldsOf(schema) |->
        IF f \in DOMAIN body THEN body[f] ELSE DefaultOf(schema, f)]

(***************************************************************************)
(* Option mappers.                                                         *)
(***************************************************************************)
IfTruthy(kw, r, f) == IF Truthy(r[f]) THEN Put(kw, f, r[f]) ELSE kw
IfNotNone(kw, r, f) == IF IsNotNone(r[f]) THEN Put(kw, f, r[f]) ELSE kw

\* _build_fetcher_kwargs with the stealthy_headers option left to the engine
BuildFetcherKwargsNoStealthy(r) ==
    LET k1 == IfTruthy(EmptyMap, r, "headers")
        k2 == IfTruthy(k1, r, "cookies")
        k3 == IfTruthy(k2, r, "params")
        k4 == IfTruthy(k3, r, "proxy")
        k5 == IfNotNone(k4, r, "timeout")
        k6 == IfNotNone(k5, r, "follow_redirects")
        k7 == IfNotNone(k6, r, "verify")
        k8 == IfTruthy(k7, r, "impersonate")
    IN  k8

\* _build_fetcher_kwargs
BuildFetcherKwargs(r) ==
    LET k1 == IfTruthy(EmptyMap, r, "headers")
        k2 == IfTruthy(k1, r, "cookies")
        k3 == IfTruthy(k2, r, "params")
        k4 == IfTruthy(k3, r, "proxy")
        k5 == IfNotNone(k4, r, "timeout")
        k6 == IfNotNone(k5, r, "follow_redirects")
        k7 == IfNotNone(k6, r, "verify")
        k8 == IfTruthy(k7, r, "impersonate")
        k9 == IfNotNone(k8, r, "stealthy_headers")
    IN  k9

\* the body options with the JSON payload taking the place of the form data
AddBodyKwargsJsonWins(kw, r) ==
    IF IsNotNone(r["json_data"]) THEN Put(kw, "json", r["json_data"])
    ELSE IF Truthy(r["data"]) THEN Put(kw, "data", r["data"])
    ELSE kw

\* the body options fetcher_post and fetcher_put add to the option map
AddBodyKwargs(kw, r) ==
    LET k1 == IF Truthy(r["data"]) THEN Put(kw, "data", r["data"]) ELSE kw
        k2 == IF IsNotNone(r["json_data"]) THEN Put(k1, "json", r["json_data"]) ELSE k1
    IN  k2

\* _build_dynamic_kwargs
BuildDynamicKwargs(r) ==
    LET k0 == [f \in {"headless", "disable_resources", "network_idle", "load_dom",
                      "timeout", "real_chrome", "google_search"} |-> r[f]]
        k1 == IfNotNone(k0, r, "wait")
        k2 == IfTruthy(k1, r, "wait_selector")
        k3 == IfTruthy(k2, r, "wait_selector_state")
        k4 == IfTruthy(k3, r, "locale")
        k5 == IfTruthy(k4, r, "cdp_url")
        k6 == IfTruthy(k5, r, "proxy")
        k7 == IfTruthy(k6, r, "extra_headers")
        k8 == IfTruthy(k7, r, "useragent")
    IN  k8

\* _build_stealthy_kwargs
BuildStealthyKwargs(r) ==
    LET k0 == BuildDynamicKwargs(r)
        k1 == Put(k0, "allow_webgl", r["allow_webgl"])
        k2 == Put(k1, "hide_canvas", r["hide_canvas"])
        k3 == Put(k2, "block_webrtc", r["block_webrtc"])
        k4 == Put(k3, "solve_cloudflare", r["solve_cloudflare"])
    IN  k4

(***************************************************************************)
(* Text.  The text of a body is a sequence of code points; every other     *)
(* text (header names and values, error messages) is a string.             *)
(***************************************************************************)
DigitChar == <<"0", "1", "2", "3", "4", "5", "6", "7", "8", "9">>

RECURSIVE ToDecimal(_)
ToDecimal(i) ==
    IF i < 10 THEN DigitChar[i + 1]
    ELSE ToDecimal(i \div 10) \o DigitChar[(i % 10) + 1]

RECURSIVE DecimalCodes(_)
DecimalCodes(i) ==
    IF i < 10 THEN <<48 + i>>
    ELSE DecimalCodes(i \div 10) \o <<48 + (i % 10)>>

\* str(x) of a value
PyStr(v) ==
    CASE v.k = "str" -> v.s
      [] v.k = "int" -> ToDecimal(v.n)
      [] v.k = "bool" -> IF v.n = 1 THEN "True" ELSE "False"
      [] v.k = "null" -> "None"
      [] OTHER -> v.s

\* bytes.decode("utf-8", errors="replace"), for bytes below 0xE0 and 0xFF:
\* ASCII, two-byte sequences, and U+FFFD for every byte that starts none
RECURSIVE Utf8DecodeReplace(_)
Utf8DecodeReplace(b) ==
    IF b = <<>> THEN <<>>
    ELSE LET h == Head(b) IN
         IF h < 128 THEN <<h>> \o Utf8DecodeReplace(Tail(b))
         ELSE IF /\ h \in 194..223
                 /\ Len(b) >= 2
                 /\ b[2] \in 128..191
              THEN <<(h - 192) * 64 + (b[2] - 128)>>
                   \o Utf8DecodeReplace(SubSeq(b, 3, Len(b)))
         ELSE <<65533>> \o Utf8DecodeReplace(Tail(b))

(***************************************************************************)
(* Response normalizer.  An engine response has url, status, reason;       *)
(* headers of a shape ("none", "dict", "mapping": a mapping-like object,   *)
(* "raising": one whose items() raises, "list": no items() at all) with    *)
(* their items; cookies of a shape ("none", "dict", "list", "tuple",       *)
(* "other") with the dict or the records; a body of a kind ("bytes",       *)
(* "str", "int", "unprintable": an object whose str() raises); and what    *)
(* its css() and xpath() queries do.                                       *)
(***************************************************************************)
\* truthiness of response.headers / response.cookies
HeadersTruthy(h) ==
    CASE h.shape = "none" -> FALSE
      [] h.shape \in {"dict", "list"} -> h.items # <<>>
      [] OTHER -> TRUE

\* response.headers.items() on a non-dict: the pairs, or the exception
HeadersItems(h) ==
    CASE h.shape = "mapping" -> [raised |-> FALSE, items |-> h.items]
      [] h.shape = "raising" -> [raised |-> TRUE, items |-> <<>>]
      [] h.shape = "list" -> [raised |-> TRUE, items |-> <<>>]

\* {str(k): str(v) for k, v in items}
RECURSIVE StrDict(_)
StrDict(items) ==
    IF items = <<>> THEN [x \in {} |-> ""]
    ELSE LET n == Len(items)
             m == StrDict(SubSeq(items, 1, n - 1))
             key == PyStr(items[n][1])
         IN  [x \in DOMAIN m \cup {key} |->
                 IF x = key THEN PyStr(items[n][2]) ELSE m[x]]

\* the headers step without the try/except of the non-dict branch
ExtractHeadersUnguarded(h) ==
    IF ~HeadersTruthy(h) THEN [raised |-> FALSE, val |-> StrDict(<<>>)]
    ELSE IF h.shape = "dict" THEN [raised |-> FALSE, val |-> StrDict(h.items)]
    ELSE IF HeadersItems(h).raised THEN [raised |-> TRUE, val |-> StrDict(<<>>)]
    ELSE [raised |-> FALSE, val |-> StrDict(HeadersItems(h).items)]

\* "Extract headers as plain dict"
ExtractHeaders(h) ==
    IF ~HeadersTruthy(h) THEN [raised |-> FALSE, val |-> StrDict(<<>>)]
    ELSE IF h.shape = "dict" THEN [raised |-> FALSE, val |-> StrDict(h.items)]
    ELSE IF HeadersItems(h).raised THEN [raised |-> FALSE, val |-> StrDict(<<>>)]
    ELSE [raised |-> FALSE, val |-> StrDict(HeadersItems(h).items)]

\* dict.update(other), and d[key] = value
Update(m, other) ==
    [x \in DOMAIN m \cup DOMAIN other |-> IF x \in DOMAIN other THEN other[x] ELSE m[x]]
SetItem(m, key, value) ==
    [x \in DOMAIN m \cup {key} |-> IF x = key THEN value ELSE m[x]]

\* the loop over a cookie sequence; a record is [isdict, d]
RECURSIVE CookieLoop(_)
CookieLoop(items) ==
    IF items = <<>> THEN [x \in {} |-> ""]
    ELSE LET n == Len(items)
             m == CookieLoop(SubSeq(items, 1, n - 1))
             cookie == items[n]
         IN  IF cookie.isdict /\ "name" \in DOMAIN cookie.d /\ "value" \in DOMAIN cookie.d
             THEN SetItem(m, cookie.d["name"], cookie.d["value"])
             ELSE IF cookie.isdict THEN Update(m, cookie.d)
             ELSE m

CookiesTruthy(c) ==
    CASE c.shape = "none" -> FALSE
      [] c.shape = "dict" -> DOMAIN c.map # {}
      [] c.shape \in {"list", "tuple"} -> c.items # <<>>
      [] OTHER -> TRUE

\* "Extract cookies as plain dict"
ExtractCookies(c) ==
    IF ~CookiesTruthy(c) THEN [x \in {} |-> ""]
    ELSE IF c.shape = "dict" THEN c.map
    ELSE IF c.shape \in {"list", "tuple"} THEN CookieLoop(c.items)
    ELSE [x \in {} |-> ""]

\* str(response), the fallback text of the body
ResponseStr(response) == <<60>> \o DecimalCodes(response.status) \o <<62>>

\* "Body as string"
BodyText(response) ==
    LET b == response.body IN
    CASE b.kind = "bytes" -> [isNull |-> FALSE, text |-> Utf8DecodeReplace(b.data)]
      [] b.kind = "str" -> [isNull |-> FALSE, text |-> b.data]
      [] b.kind = "int" -> [isNull |-> FALSE, text |-> DecimalCodes(b.data[1])]
      [] b.kind = "unprintable" -> [isNull |-> FALSE, text |-> ResponseStr(response)]

\* [el.html if hasattr(el, "html") else str(el) for el in elements]
ElementsHtml(elements) ==
    [i \in 1..Len(elements) |->
        IF elements[i].hasHtml THEN elements[i].html ELSE elements[i].text]

NoSelection == [isNull |-> TRUE, items |-> <<>>]

\* one selector query: the elements' HTML, or the one-entry error list
RunSelector(query, label) ==
    IF query.raises
    THEN [isNull |-> FALSE, items |-> <<label \o " selector error: " \o query.msg>>]
    ELSE [isNull |-> FALSE, items |-> ElementsHtml(query.elements)]

\* the selector step running both queries, the later one winning
SelectContentBoth(response, css_selector, xpath_selector) ==
    IF Truthy(css_selector) /\ Truthy(xpath_selector)
    THEN [evaluated |-> <<"css", "xpath">>, selected |-> RunSelector(response.xpath, "XPath")]
    ELSE IF Truthy(css_selector)
    THEN [evaluated |-> <<"css">>, selected |-> RunSelector(response.css, "CSS")]
    ELSE IF Truthy(xpath_selector)
    THEN [evaluated |-> <<"xpath">>, selected |-> RunSelector(response.xpath, "XPath")]
    ELSE [evaluated |-> <<>>, selected |-> NoSelection]

\* "Selected content via CSS or XPath"
SelectContent(response, css_selector, xpath_selector) ==
    IF Truthy(css_selector)
    THEN [evaluated |-> <<"css">>, selected |-> RunSelector(response.css, "CSS")]
    ELSE IF Truthy(xpath_selector)
    THEN [evaluated |-> <<"xpath">>, selected |-> RunSelector(response.xpath, "XPath")]
    ELSE [evaluated |-> <<>>, selected |-> NoSelection]

\* _response_to_dict whose selector error discards the fetched body
ResponseToDictDropOnError(response, css_selector, xpath_selector) ==
    LET h == ExtractHeaders(response.headers)
        sel == SelectContent(response, css_selector, xpath_selector)
        failed == \/ Truthy(css_selector) /\ response.css.raises
                  \/ ~Truthy(css_selector) /\ Truthy(xpath_selector) /\ response.xpath.raises
    IN  [raised |-> h.raised,
         evaluated |-> IF h.raised THEN <<>> ELSE sel.evaluated,
         val |-> [url |-> PyStr(response.url),
                  status |-> response.status,
                  reason |-> response.reason,
                  headers |-> h.val,
                  cookies |-> ExtractCookies(response.cookies),
                  body |-> IF failed THEN [isNull |-> FALSE, text |-> <<>>]
                           ELSE BodyText(response),
                  selected_content |-> sel.selected]]

\* _response_to_dict: raised tells whether an exception escaped it
ResponseToDict(response, css_selector, xpath_selector) ==
    LET h == ExtractHeaders(response.headers)
        sel == SelectContent(response, css_selector, xpath_selector)
    IN  [raised |-> h.raised,
         evaluated |-> IF h.raised THEN <<>> ELSE sel.evaluated,
         val |-> [url |-> PyStr(response.url),
                  status |-> response.status,
                  reason |-> response.reason,
                  headers |-> h.val,
                  cookies |-> ExtractCookies(response.cookies),
                  body |-> BodyText(response),
                  selected_content |-> sel.selected]]

(***************************************************************************)
(* Route dispatch.  Serving a request yields its outcome: the HTTP status, *)
(* the error detail, the JSON content, the phases run, the engine calls    *)
(* made and the selector queries evaluated.                                *)
(***************************************************************************)
ProtectedRoutes ==
    {"fetcher_get", "fetcher_post", "fetcher_put", "fetcher_delete",
     "dynamic_fetch", "stealthy_fetch"}

\* the request model each route declares
SchemaOf(route) ==
    CASE route \in {"fetcher_get", "fetcher_delete"} -> "FetcherGetRequest"
      [] route \in {"fetcher_post", "fetcher_put"} -> "FetcherDataRequest"
      [] route = "dynamic_fetch" -> "DynamicFetchRequest"
      [] route = "stealthy_fetch" -> "StealthyFetchRequest"

\* the engine operation each route invokes
EngineOp(route) ==
    CASE route = "fetcher_get" -> "Fetcher.get"
      [] route = "fetcher_post" -> "Fetcher.post"
      [] route = "fetcher_put" -> "Fetcher.put"
      [] route = "fetcher_delete" -> "Fetcher.delete"
      [] route = "dynamic_fetch" -> "DynamicFetcher.fetch"
      [] route = "stealthy_fetch" -> "StealthyFetcher.fetch"

\* the option map each route builds before the engine call
KwargsFor(route, r) ==
    CASE route \in {"fetcher_get", "fetcher_delete"} -> BuildFetcherKwargs(r)
      [] route \in {"fetcher_post", "fetcher_put"} ->
            AddBodyKwargs(BuildFetcherKwargs(r), r)
      [] route = "dynamic_fetch" -> BuildDynamicKwargs(r)
      [] route = "stealthy_fetch" -> BuildStealthyKwargs(r)

NoContent == [none |-> TRUE]

Outcome(status, detail, content, phases, invocations, queries) ==
    [status |-> status, detail |-> detail, content |-> content,
     trace |-> phases, calls |-> invocations, evaluated |-> queries]

\* a handler that lets the engine's exception escape
EndpointNoCatch(route, r, out) ==
    LET call == [op |-> EngineOp(route), url |-> r["url"], kwargs |-> KwargsFor(route, r)]
        norm == ResponseToDict(out.response, r["css_selector"], r["xpath_selector"])
    IN  IF out.raised
        THEN Outcome(500, "Internal Server Error", NoContent,
                     <<"map", "engine">>, <<call>>, <<>>)
        ELSE IF norm.raised
        THEN Outcome(500, "Internal Server Error", NoContent,
                     <<"map", "engine", "normalize">>, <<call>>, norm.evaluated)
        ELSE Outcome(200, "", norm.val,
                     <<"map", "engine", "normalize">>, <<call>>, norm.evaluated)

\* the body of a protected handler: build the options, call the engine
\* once, turn its exception into a 502, else normalize and answer 200
Endpoint(route, r, out) ==
    LET call == [op |-> EngineOp(route), url |-> r["url"], kwargs |-> KwargsFor(route, r)]
        norm == ResponseToDict(out.response, r["css_selector"], r["xpath_selector"])
    IN  IF out.raised
        THEN Outcome(502, out.msg, NoContent, <<"map", "engine">>, <<call>>, <<>>)
        ELSE IF norm.raised
        THEN Outcome(500, "Internal Server Error", NoContent,
                     <<"map", "engine", "normalize">>, <<call>>, norm.evaluated)
        ELSE Outcome(200, "", norm.val,
                     <<"map", "engine", "normalize">>, <<call>>, norm.evaluated)

AuthDetail(status) ==
    IF status = 401 THEN "Missing API key. Provide it via the X-API-Key header."
    ELSE "Invalid API key."

Prepend(phases, o) == [o EXCEPT !.trace = phases \o o.trace]

\* a protected route that hands the body to its handler unvalidated
DispatchUnvalidated(key, route, hdr, body, out) ==
    LET auth == VerifyApiKey(key, hdr) IN
    IF auth.raised = "HTTPException"
    THEN Outcome(auth.status, AuthDetail(auth.status), NoContent, <<"auth">>, <<>>, <<>>)
    ELSE IF auth.raised # ""
    THEN Outcome(500, "Internal Server Error", NoContent, <<"auth">>, <<>>, <<>>)
    ELSE Prepend(<<"auth">>,
                 Endpoint(route,
                          [f \in FieldsOf(SchemaOf(route)) |->
                              IF f \in DOMAIN body THEN body[f] ELSE Null],
                          out))

\* a protected route: the auth dependency, the validation of the body
\* against the route's request model, then the handler
Dispatch(key, route, hdr, body, out) ==
    LET auth == VerifyApiKey(key, hdr) IN
    IF auth.raised = "HTTPException"
    THEN Outcome(auth.status, AuthDetail(auth.status), NoContent, <<"auth">>, <<>>, <<>>)
    ELSE IF auth.raised # ""
    THEN Outcome(500, "Internal Server Error", NoContent, <<"auth">>, <<>>, <<>>)
    ELSE IF ~Validates(SchemaOf(route), body)
    THEN Outcome(422, "validation error", NoContent, <<"auth", "validate">>, <<>>, <<>>)
    ELSE Prepend(<<"auth", "validate">>,
                 Endpoint(route, ParseModel(SchemaOf(route), body), out))

\* the health route put behind the auth dependency
HealthRouteGuarded(key, hdr) ==
    LET auth == VerifyApiKey(key, hdr) IN
    IF auth.raised # ""
    THEN Outcome(auth.status, AuthDetail(auth.status), NoContent, <<"auth">>, <<>>, <<>>)
    ELSE Outcome(200, "", [status |-> "ok"], <<"auth">>, <<>>, <<>>)

\* the health route: no dependency, no body, a fixed answer
HealthRoute(key, hdr) ==
    Outcome(200, "", [status |-> "ok"], <<>>, <<>>, <<>>)

(***************************************************************************)
(* The requests and engine outcomes the model draws from.                  *)
(***************************************************************************)
\* keys and header values: "k", "x", "kk" and the non-ASCII "é"
ConfiguredKeys == {None, Some(<<107>>), Some(<<233>>)}
HeaderValues == {None, Some(<<107>>), Some(<<120>>), Some(<<233>>), Some(<<107, 107>>)}

\* what a client that knows the configuration sends, when the guard lets it
\* through: no header without a key, the key itself otherwise
Credentials(key) == {h \in {key} : VerifyApiKey(key, h).raised = ""}

UrlOnly == [f \in {"url"} |-> Str("https://example.com")]

\* what a body may carry in an optional field: null, a falsy value, a value
FieldValues(f) ==
    CASE TypeOf(f) = "str" -> {Null, Str(""), Str("#x")}
      [] TypeOf(f) = "dict" -> {Null, Dict("", 0), Dict("a=b", 1)}
      [] TypeOf(f) = "int" -> {Null, Int(0), Int(5)}
      [] TypeOf(f) = "bool" -> {Null, Bool(TRUE), Bool(FALSE)}
      [] TypeOf(f) = "any" -> {Null, Int(0), Dict("j", 1)}

\* the valid bodies that set at most n of the optional fields F
RECURSIVE BodiesSetting(_, _)
BodiesSetting(F, n) ==
    IF n = 0 THEN {UrlOnly}
    ELSE LET P == BodiesSetting(F, n - 1) IN
         P \cup UNION { IF bf[2] \in DOMAIN bf[1] THEN {}
                        ELSE {Put(bf[1], bf[2], v) : v \in FieldValues(bf[2])}
                        : bf \in P \X F }

RichBodies(schema) == BodiesSetting(FieldsOf(schema) \ {"url"}, MaxSetFields)

\* bodies that fail validation: no url, a null url, a url or a timeout of
\* the wrong type
InvalidBodies ==
    {EmptyMap,
     [f \in {"url"} |-> Null],
     [f \in {"url"} |-> List("u", 1)],
     [f \in {"css_selector"} |-> Str("#x")],
     Put(UrlOnly, "timeout", List("t", 1))}

SelectorBodies ==
    {b \in BodiesSetting({"css_selector", "xpath_selector"}, 2) :
        \A f \in DOMAIN b : b[f] # Null}

\* bodies carrying a form-data map, a JSON payload, or both
PayloadBodies == BodiesSetting({"data", "json_data"}, 2)

SeqsUpTo(S, n) == UNION {[1..m -> S] : m \in 0..n}

CssOutcomes ==
    {[raises |-> TRUE, msg |-> "bad css", elements |-> <<>>],
     [raises |-> FALSE, msg |-> "",
      elements |-> <<[hasHtml |-> TRUE, html |-> "<a>1</a>", text |-> "1"],
                     [hasHtml |-> FALSE, html |-> "", text |-> "one"]>>]}

XpathOutcomes ==
    {[raises |-> TRUE, msg |-> "bad xpath", elements |-> <<>>],
     [raises |-> FALSE, msg |-> "",
      elements |-> <<[hasHtml |-> TRUE, html |-> "<b>2</b>", text |-> "2"]>>]}

HeaderShapes ==
    {[shape |-> "none", items |-> <<>>],
     [shape |-> "dict", items |-> <<>>],
     [shape |-> "dict",
      items |-> << <<Str("content-length"), Int(42)>>, <<Str("server"), Str("nginx")>> >>],
     [shape |-> "mapping", items |-> << <<Str("server"), Str("nginx")>> >>],
     [shape |-> "raising", items |-> <<>>],
     [shape |-> "list", items |-> << <<Str("server"), Str("nginx")>> >>]}

NoStrMap == [x \in {} |-> ""]

CookieRecords ==
    {[isdict |-> TRUE, d |-> [name |-> "sid", value |-> "1", path |-> "/"]],
     [isdict |-> TRUE, d |-> [sid |-> "2", theme |-> "dark"]],
     [isdict |-> TRUE, d |-> [name |-> "n"]],
     [isdict |-> FALSE, d |-> NoStrMap]}

CookieShapes ==
    {[shape |-> "none", map |-> NoStrMap, items |-> <<>>],
     [shape |-> "dict", map |-> [sid |-> "1"], items |-> <<>>],
     [shape |-> "other", map |-> NoStrMap, items |-> <<>>]}
    \cup {[shape |-> sh, map |-> NoStrMap, items |-> <<c>>] :
            sh \in {"list", "tuple"}, c \in CookieRecords}

CookieSequences ==
    {[shape |-> "list", map |-> NoStrMap, items |-> cs] :
        cs \in SeqsUpTo(CookieRecords, MaxCookies)}

BodyShapes ==
    {[kind |-> "bytes", data |-> <<104, 105>>],
     [kind |-> "bytes", data |-> <<255>>],
     [kind |-> "str", data |-> <<104, 233>>],
     [kind |-> "int", data |-> <<42>>],
     [kind |-> "unprintable", data |-> <<>>]}

\* bytes bodies over 'A', the two bytes of U+00E9 and the invalid 0xFF
BytesBodies ==
    {[kind |-> "bytes", data |-> d] : d \in SeqsUpTo({65, 195, 169, 255}, MaxBodyLen)}

PlainResponse ==
    [url |-> Str("https://example.com"), status |-> 200, reason |-> "OK",
     headers |-> [shape |-> "dict", items |-> << <<Str("server"), Str("nginx")>> >>],
     cookies |-> [shape |-> "dict", map |-> [sid |-> "1"], items |-> <<>>],
     body |-> [kind |-> "str", data |-> <<104, 105>>],
     css |-> CHOOSE q \in CssOutcomes : ~q.raises,
     xpath |-> CHOOSE q \in XpathOutcomes : ~q.raises]

NotFoundResponse ==
    [PlainResponse EXCEPT !.status = 404, !.reason = "Not Found",
                          !.body = [kind |-> "bytes", data |-> <<>>]]

ShapedResponses ==
    {[PlainResponse EXCEPT !.headers = h, !.cookies = c, !.body = b,
                           !.css = q1, !.xpath = q2] :
        h \in HeaderShapes,
        c \in {x \in CookieShapes : x.shape # "tuple" /\ \A i \in DOMAIN x.items :
                                         "value" \in DOMAIN x.items[i].d},
        b \in BodyShapes, q1 \in CssOutcomes, q2 \in XpathOutcomes}

Returns(response) == [raised |-> FALSE, msg |-> "", response |-> response]
Raises(msg) == [raised |-> TRUE, msg |-> msg, response |-> PlainResponse]
NotInvoked == [invoked |-> FALSE]

Scenario(hdrs, bodies, outs) ==
    {[hdr |-> h, body |-> b, out |-> o] : h \in hdrs, b \in bodies, o \in outs}

\* every credential against valid and invalid bodies and a plain engine
AuthScenarios ==
    Scenario(HeaderValues, {UrlOnly} \cup InvalidBodies,
             {Returns(PlainResponse), Returns(NotFoundResponse),
              Raises("Timeout 30000ms exceeded"), Raises("")})

\* an admitted client setting any fields of the route's schema
OptionScenarios(route, key) ==
    Scenario(Credentials(key), RichBodies(SchemaOf(route)) \cup PayloadBodies,
             {Returns(PlainResponse)})

\* an admitted client with selectors against every shape of engine response
NormalizerScenarios(key) ==
    Scenario(Credentials(key), SelectorBodies,
             {Returns(x) : x \in ShapedResponses} \cup {Raises("net::ERR_FAILED")})
    \cup
    Scenario(Credentials(key), {UrlOnly},
             {Returns([PlainResponse EXCEPT !.cookies = c]) :
                 c \in CookieSequences \cup CookieShapes}
             \cup {Returns([PlainResponse EXCEPT !.body = b]) : b \in BytesBodies})

Scenarios(route, key) ==
    AuthScenarios \cup OptionScenarios(route, key) \cup NormalizerScenarios(key)

(***************************************************************************)
(* The state machine: one action per route handler, serving one request    *)
(* from arrival to response, and the server going on to the next request.  *)
(***************************************************************************)
NoRequest == [route |-> "", header |-> None, body |-> EmptyMap]

Init ==
    /\ apiKey \in ConfiguredKeys
    /\ pc = "idle"
    /\ req = NoRequest
    /\ engineOut = NotInvoked
    /\ trace = <<>>
    /\ calls = <<>>
    /\ evaluated = <<>>
    /\ resp = [status |-> 0, detail |-> "", content |-> NoContent]

Record(route, hdr, body, out, o) ==
    /\ pc' = "done"
    /\ req' = [route |-> route, header |-> hdr, body |-> body]
    /\ engineOut' = IF o.calls = <<>> THEN NotInvoked ELSE out
    /\ trace' = o.trace
    /\ calls' = o.calls
    /\ evaluated' = o.evaluated
    /\ resp' = [status |-> o.status, detail |-> o.detail, content |-> o.content]
    /\ UNCHANGED apiKey

Protected(route) ==
    /\ pc = "idle"
    /\ \E sc \in Scenarios(route, apiKey) :
          Record(route, sc.hdr, sc.body, sc.out,
                 Dispatch(apiKey, route, sc.hdr, sc.body, sc.out))

fetcher_get == Protected("fetcher_get")
fetcher_post == Protected("fetcher_post")
fetcher_put == Protected("fetcher_put")
fetcher_delete == Protected("fetcher_delete")
dynamic_fetch == Protected("dynamic_fetch")
stealthy_fetch == Protected("stealthy_fetch")

health ==
    /\ pc = "idle"
    /\ \E hdr \in HeaderValues :
          Record("health", hdr, EmptyMap, NotInvoked, HealthRoute(apiKey, hdr))

\* the response is sent and the request's objects are discarded
Respond ==
    /\ pc = "done"
    /\ pc' = "idle"
    /\ req' = NoRequest
    /\ engineOut' = NotInvoked
    /\ trace' = <<>>
    /\ calls' = <<>>
    /\ evaluated' = <<>>
    /\ resp' = [status |-> 0, detail |-> "", content |-> NoContent]
    /\ UNCHANGED apiKey

Next ==
    \/ fetcher_get
    \/ fetcher_post
    \/ fetcher_put
    \/ fetcher_delete
    \/ dynamic_fetch
    \/ stealthy_fetch
    \/ health
    \/ Respond

Spec == Init /\ [][Next]_vars

(***************************************************************************)
(* The properties.                                                         *)
(***************************************************************************)
Range(q) == {q[i] : i \in DOMAIN q}
Served == pc = "done"
ProtectedServed == Served /\ req.route \in ProtectedRoutes
EngineInvoked == calls # <<>>
Normalized == "normalize" \in Range(trace)
PhaseOrder == <<"auth", "validate", "map", "engine", "normalize">>
IsPrefix(p, q) == Len(p) <= Len(q) /\ \A i \in DOMAIN p : p[i] = q[i]
Supplied(f) == f \in DOMAIN req.body /\ req.body[f] # Null
NonEmpty(f) == f \in DOMAIN req.body /\ Truthy(req.body[f])

\* C1: with a key configured, a protected route answers 401 to a missing
\* header, 403 to a header that differs from the key, lets the exact key
\* through to validation, and never invokes the engine on a 401 or 403.
AuthGateAsClaimed ==
    ProtectedServed /\ apiKey.set =>
        /\ ~req.header.set => resp.status = 401
        /\ req.header.set /\ req.header.v # apiKey.v => resp.status = 403
        /\ req.header.set /\ req.header.v = apiKey.v =>
              resp.status \notin {401, 403} /\ "validate" \in Range(trace)
        /\ resp.status \in {401, 403} => ~EngineInvoked

\* C2: with no key configured, no request to a protected route is rejected
\* with 401 or 403, whatever its X-API-Key header: it reaches validation.
FailOpen ==
    ProtectedServed /\ ~apiKey.set =>
        /\ resp.status \notin {401, 403}
        /\ "validate" \in Range(trace)

FailOpenWitness ==
    /\ ProtectedServed /\ ~apiKey.set
    /\ req.header = Some(<<233>>)
    /\ resp.status = 200

\* C3: the health route answers 200 {"status": "ok"} for any header and any
\* configured key, without running the auth guard or invoking the engine.
HealthAlwaysOk ==
    Served /\ req.route = "health" =>
        /\ resp.status = 200
        /\ resp.content = [status |-> "ok"]
        /\ "auth" \notin Range(trace)
        /\ ~EngineInvoked

HealthWitness ==
    /\ Served /\ req.route = "health"
    /\ apiKey.set /\ ~req.header.set
    /\ resp.status = 200

\* C4: an exception of the engine invocation surfaces as a 502 whose detail
\* is the exception's text; the engine was invoked exactly once and the
\* normalizer did not run.
EngineFailureIs502 ==
    ProtectedServed /\ EngineInvoked /\ engineOut.raised =>
        /\ resp.status = 502
        /\ resp.detail = engineOut.msg
        /\ Len(calls) = 1
        /\ ~Normalized
        /\ evaluated = <<>>

EngineFailureWitness ==
    /\ Served /\ req.route = "dynamic_fetch"
    /\ EngineInvoked /\ engineOut.raised
    /\ resp.status = 502
    /\ resp.detail = "Timeout 30000ms exceeded"

\* C5: a protected route runs authenticate, validate, map options, invoke
\* engine, normalize in that order and answers 200 at the end of it; the
\* engine is invoked only after authentication and validation succeeded;
\* an authenticated request whose body misses url or has a wrong type gets
\* 422 and the engine is not invoked.
BadBody ==
    \/ "url" \notin DOMAIN req.body
    \/ \E f \in DOMAIN req.body : req.body[f].k = "list"

PipelineOrder ==
    ProtectedServed =>
        /\ IsPrefix(trace, PhaseOrder)
        /\ trace # <<>>
        /\ EngineInvoked =>
              /\ SubSeq(trace, 1, 4) = SubSeq(PhaseOrder, 1, 4)
              /\ ~BadBody
              /\ req.body["url"].k = "str"
              /\ apiKey.set => req.header = apiKey
        /\ "validate" \in Range(trace) /\ BadBody =>
              resp.status = 422 /\ ~EngineInvoked
        /\ resp.status = 422 => ~EngineInvoked /\ trace = <<"auth", "validate">>
        /\ resp.status = 200 <=> trace = PhaseOrder

PipelineWitness ==
    /\ ProtectedServed /\ apiKey.set
    /\ "url" \notin DOMAIN req.body
    /\ resp.status = 422

\* C6 as stated: on the plain-fetch routes no option field the request left
\* unset is a key of the option map; on the browser routes the six boolean
\* flags are always keys.
FetcherRoutes == {"fetcher_get", "fetcher_post", "fetcher_put", "fetcher_delete"}
NullDefaultOptions == {"headers", "cookies", "params", "proxy", "impersonate"}
GatewayDefaultOptions == {"timeout", "follow_redirects", "verify", "stealthy_headers"}
AlwaysForwarded ==
    {"headless", "disable_resources", "network_idle", "load_dom",
     "real_chrome", "google_search"}
GatewayDefault(f) == IF f = "timeout" THEN Int(30) ELSE Bool(TRUE)

SelectorRaised ==
    /\ EngineInvoked /\ ~engineOut.raised
    /\ \/ evaluated = <<"css">> /\ engineOut.response.css.raises
       \/ evaluated = <<"xpath">> /\ engineOut.response.xpath.raises

SelectorFaultIsolated ==
    ProtectedServed /\ SelectorRaised =>
        LET plain == ResponseToDict(engineOut.response, Null, Null).val
            query == IF evaluated = <<"css">> THEN engineOut.response.css
                     ELSE engineOut.response.xpath
        IN  /\ resp.status = 200
            /\ ~resp.content.selected_content.isNull
            /\ Len(resp.content.selected_content.items) = 1
            /\ resp.content.selected_content.items[1] \in
                  {"CSS selector error: " \o query.msg,
                   "XPath selector error: " \o query.msg}
            /\ \A f \in {"url", "status", "reason", "headers", "cookies", "body"} :
                  resp.content[f] = plain[f]

SelectorFaultWitness ==
    /\ ProtectedServed /\ SelectorRaised
    /\ evaluated = <<"xpath">>
    /\ engineOut.response.body.kind = "bytes"
    /\ resp.status = 200

\* C9 as stated: when both selectors are set only the CSS query is run and
\* selected_content is its result; the XPath query is run only when the
\* CSS selector is absent; with neither given selected_content is null.
SelectorPrecedenceAsClaimed ==
    ProtectedServed /\ Normalized =>
        /\ Supplied("css_selector") /\ Supplied("xpath_selector") =>
              /\ evaluated = <<"css">>
              /\ resp.content.selected_content = RunSelector(engineOut.response.css, "CSS")
        /\ "xpath" \in Range(evaluated) => ~Supplied("css_selector")
        /\ ~Supplied("css_selector") /\ ~Supplied("xpath_selector") =>
              resp.content.selected_content.isNull

\* C9 amended: when both selectors are non-empty strings only the CSS query
\* is run and selected_content is its result; the XPath query is run only
\* when the CSS selector is absent, null or empty (and the XPath selector is
\* non-empty); with neither a non-empty CSS nor a non-empty XPath selector
\* no query is run and selected_content is null.
SelectorPrecedence ==
    ProtectedServed /\ Normalized =>
        /\ NonEmpty("css_selector") =>
              /\ evaluated = <<"css">>
              /\ resp.content.selected_content = RunSelector(engineOut.response.css, "CSS")
        /\ "xpath" \in Range(evaluated) =>
              /\ ~NonEmpty("css_selector") /\ NonEmpty("xpath_selector")
              /\ evaluated = <<"xpath">>
              /\ resp.content.selected_content =
                    RunSelector(engineOut.response.xpath, "XPath")
        /\ ~NonEmpty("css_selector") /\ NonEmpty("xpath_selector") =>
              evaluated = <<"xpath">>
        /\ ~NonEmpty("css_selector") /\ ~NonEmpty("xpath_selector") =>
              evaluated = <<>> /\ resp.content.selected_content.isNull

SelectorPrecedenceWitness ==
    /\ ProtectedServed /\ Normalized
    /\ NonEmpty("css_selector") /\ NonEmpty("xpath_selector")
    /\ ~engineOut.response.css.raises
    /\ evaluated = <<"css">>
    /\ resp.content.selected_content.items = <<"<a>1</a>", "one">>

\* C10 as stated: a POST or PUT request that supplies both a form-data map
\* and a JSON payload has the JSON payload, and not the form data, in the
\* option map passed to the engine.
JsonPrecedenceAsClaimed ==
    Served /\ req.route \in {"fetcher_post", "fetcher_put"} /\ EngineInvoked
           /\ Supplied("data") /\ Supplied("json_data") =>
        /\ "json" \in DOMAIN calls[1].kwargs
        /\ calls[1].kwargs["json"] = req.body["json_data"]
        /\ "data" \notin DOMAIN calls[1].kwargs

\* C10 amended: a POST or PUT request that supplies both a non-empty
\* form-data map and a non-null JSON payload has both in the option map
\* passed to the engine, the form data under data and the JSON payload
\* under json; an empty form-data map is left out and the JSON payload
\* alone is passed.
BothPayloadsForwarded ==
    Served /\ req.route \in {"fetcher_post", "fetcher_put"} /\ EngineInvoked
           /\ Supplied("data") /\ Supplied("json_data") =>
        /\ "json" \in DOMAIN calls[1].kwargs
        /\ calls[1].kwargs["json"] = req.body["json_data"]
        /\ NonEmpty("data") =>
              /\ "data" \in DOMAIN calls[1].kwargs
              /\ calls[1].kwargs["data"] = req.body["data"]
        /\ ~NonEmpty("data") => "data" \notin DOMAIN calls[1].kwargs

BothPayloadsWitness ==
    /\ Served /\ req.route = "fetcher_put" /\ EngineInvoked
    /\ NonEmpty("data") /\ Supplied("json_data")
    /\ DOMAIN calls[1].kwargs = GatewayDefaultOptions \cup {"data", "json"}
====
